---------------------------- MODULE Spec2Model ----------------------------
(***************************************************************************)
(* Detouring::ClassProxy<Target, Substitute> (src/classproxy.hpp) as a     *)
(* state machine.  The model follows the _MSC_VER / _WIN64 build of the    *)
(* header: a pointer to member is one machine word holding a code address, *)
(* a pointer to a virtual member points at a "vcall" thunk                 *)
(* (mov rax,[rcx]; jmp [rax+off]) and sizeof( void * ) is 8.               *)
(*                                                                         *)
(* Addresses are naturals, 0 is nullptr.  Code memory is a fixed set of    *)
(* byte blobs; the dispatch table of the target instance is the only       *)
(* memory the class ever writes.                                           *)
(***************************************************************************)
EXTENDS Integers, Sequences, FiniteSets, TLC

(***************************************************************************)
(* Sizes of the two dispatch tables of the modelled process.               *)
(***************************************************************************)
NumTargetSlots == 2

NumSubstituteSlots == 2

\* sizeof( void * ) of the modelled x86-64 build
PtrSize == 8

\* the index of a default-constructed Member: the largest size_t, written here
\* as the largest integer the checker computes with
SizeMax == 2147483647

(***************************************************************************)
(* Process memory: code.                                                   *)
(***************************************************************************)
\* every code blob starts on a 16-byte boundary
CodeAlign == 16

VCall0 == 1 * CodeAlign

VCall1 == 2 * CodeAlign

VCallFar == 3 * CodeAlign

JmpThunk1 == 4 * CodeAlign

PlainFunc == 5 * CodeAlign

TargetFuncBase == 16 * CodeAlign

SubstFuncBase == 32 * CodeAlign

TrampolineBase == 64 * CodeAlign

\* the implementation stored in slot i (0-based) of the untouched target table
TargetFunc(i) == TargetFuncBase + i * CodeAlign

\* an implementation defined by the substitute class
SubstFunc(i) == SubstFuncBase + i * CodeAlign

\* the bytes found at a blob's base address
CodeAt(base) ==
    CASE base = VCall0 -> << 72, 139, 1, 255, 32 >>                    \* mov rax,[rcx]; jmp [rax]
      [] base = VCall1 -> << 72, 139, 1, 255, 96, 8 >>                 \* jmp [rax+08h]
      [] base = VCallFar -> << 72, 139, 1, 255, 160, 72, 0, 0, 0 >>    \* jmp [rax+00000048h]
      [] base = JmpThunk1 -> << 233, 219, 255, 255, 255 >>               \* jmp $-37 (to VCall1)
      [] base = PlainFunc -> << 64, 83, 72, 131, 236, 32 >>            \* push rbx; sub rsp,20h
      [] base >= TargetFunc(0) /\ base <= TargetFunc(NumTargetSlots) ->
            << 72, 137, 92, 36, 8 >>                                   \* mov [rsp+8],rbx
      [] base >= SubstFunc(0) /\ base <= SubstFunc(NumSubstituteSlots) ->
            << 85, 72, 139, 236 >>                                     \* push rbp; mov rbp,rsp
      [] OTHER -> << >>

\* the bytes of the code section, address by address; int3 fills the gaps
CodeMemory ==
    [ a \in 0..(TrampolineBase - 1) |->
        LET blob == CodeAt((a \div CodeAlign) * CodeAlign)
            off  == a % CodeAlign
        IN  IF off < Len(blob) THEN blob[off + 1] ELSE 204 ]

ReadByte(a) == IF a \in DOMAIN CodeMemory THEN CodeMemory[a] ELSE 204

\* *reinterpret_cast<uint32_t *>( p )
ReadUInt32(p) ==
    ReadByte(p) + 256 * ReadByte(p + 1) + 65536 * ReadByte(p + 2) + 16777216 * ReadByte(p + 3)

\* a byte read as int8_t
SignedByte(b) == IF b >= 128 THEN b - 256 ELSE b

\* *reinterpret_cast<int32_t *>( p ): the top byte carries the sign
ReadInt32(p) ==
    ReadByte(p) + 256 * ReadByte(p + 1) + 65536 * ReadByte(p + 2)
      + 16777216 * SignedByte(ReadByte(p + 3))

(***************************************************************************)
(* Process memory: objects and their dispatch tables.                      *)
(***************************************************************************)
TargetTablePtr == 128 * CodeAlign

SubstituteTablePtr == 160 * CodeAlign

DataTablePtr == 192 * CodeAlign

\* a word of plain data, not code
DataWord == 8

\* slot of the substitute table that holds the same code as the target's slot
\* (an implementation both classes share, or one the linker folded)
SharedSlot == 1

\* the target's table as the compiler emitted it, with the null word after it
TargetTableImage == [ k \in 1..(NumTargetSlots + 1) |->
                        IF k <= NumTargetSlots THEN TargetFunc(k - 1) ELSE 0 ]

SubstituteTableImage == [ k \in 1..(NumSubstituteSlots + 1) |->
                            IF k > NumSubstituteSlots THEN 0
                            ELSE IF k - 1 = SharedSlot THEN TargetFunc(k - 1)
                            ELSE SubstFunc(k - 1) ]

\* first word of an object that is not polymorphic
DataTableImage == << DataWord, 0 >>

\* values GetVirtualTable( instance ) can yield for the instances of the process
InstanceTables == { 0, DataTablePtr, TargetTablePtr }

\* The pointers to members of Target a consumer program passes.  One program
\* names two virtual members (the second through a debug-build jump thunk)
\* and a non-virtual one; the other names a virtual member both through its
\* vcall thunk and by the address of its implementation.
ConsumerRefs == << { VCall0, JmpThunk1, PlainFunc }, { VCall0, TargetFunc(0) } >>

\* pointers to members of Substitute the consumer passes to the member overload
SubstituteRefs == { VCall0, VCall1, VCallFar }

\* and to the function overload, which reads only their address
FunctionSubstituteRefs == { VCall0 }

\* function pointers of the form RetType ( * )( Target *, Args... )
FunctionRefs == { 0, PlainFunc }

\* how a call of the trampoline collaborator can end
HookResults == { "ok", "create fails", "enable fails" }

VARIABLES
    target_size,        \* static size_t target_size
    target_vtable,      \* static void **target_vtable
    target_cache,       \* static CacheMap target_cache
    original_vtable,    \* static std::vector<void *> original_vtable
    substitute_size,    \* static size_t substitute_size
    substitute_vtable,  \* static void **substitute_vtable
    substitute_cache,   \* static CacheMap substitute_cache
    hooks,              \* static HookMap hooks
    target_mem,         \* the words of the target instance's dispatch table
    writable,           \* slots of that table whose page is currently writable
    consumer,           \* which consumer program runs (an index of ConsumerRefs)
    last,               \* the last public call: its arguments, result and memory events
    pre                 \* target_mem and hooks as they were when that call started

vars == << target_size, target_vtable, target_cache, original_vtable,
           substitute_size, substitute_vtable, substitute_cache, hooks,
           target_mem, writable, consumer, last, pre >>

statics == << target_size, target_vtable, target_cache, original_vtable,
              substitute_size, substitute_vtable, substitute_cache, hooks >>

MemberRefs == ConsumerRefs[consumer]

EmptyMap == [ a \in {} |-> 0 ]

MapPut(m, k, v) == [ a \in DOMAIN m \cup {k} |-> IF a = k THEN v ELSE m[a] ]

MapErase(m, k) == [ a \in DOMAIN m \ {k} |-> m[a] ]

\* the words a table pointer points at
TableMem(ptr) ==
    IF ptr = TargetTablePtr THEN target_mem
    ELSE IF ptr = SubstituteTablePtr THEN SubstituteTableImage
    ELSE IF ptr = DataTablePtr THEN DataTableImage
    ELSE << >>


(***************************************************************************)
(* Member and the resolver.  A local of the C++ code that is read more     *)
(* than once is a parameter of the operator that models the code reading   *)
(* it.                                                                     *)
(***************************************************************************)
\* Member::Member( ): no address, an index no table reaches
MemberDefault == [ address |-> 0, index |-> SizeMax ]

\* Member::Member( size_t idx, void *addr )
Member(idx, addr) == [ address |-> addr, index |-> idx ]

\* GetAddress: the code address of a pointer to member; a leading relative
\* jump (E9 rel32) is followed once
GetAddress(method) ==
    IF ReadByte(method) = 233
    THEN method + 5 + ReadInt32(method + 1)
    ELSE method

\* the for loop of GetVirtualAddress: the first slot that holds `member`
RECURSIVE ScanTable(_, _, _, _)
ScanTable(vtable, size, member, index) ==
    IF index >= size THEN MemberDefault
    ELSE IF TableMem(vtable)[index + 1] = member THEN Member(index, member)
    ELSE ScanTable(vtable, size, member, index + 1)

\* the offset a vcall thunk's jmp [rax+off] carries, by its ModRM mod field
JumpOffset(addr, jumptype) ==
    IF jumptype = 1 THEN ReadByte(addr + 2)
    ELSE IF jumptype = 2 THEN ReadUInt32(addr + 2)
    ELSE 0

\* the slot a decoded offset names, if the table has it
SlotMember(vtable, size, index) ==
    IF index >= size THEN MemberDefault
    ELSE Member(index, TableMem(vtable)[index + 1])

\* GetVirtualAddress past the skipped mov: a jmp through the table, or the scan
DecodeThunk(vtable, size, member, addr) ==
    IF ReadByte(addr) = 255 /\ (ReadByte(addr + 1) \div 16) % 4 = 2
    THEN SlotMember(vtable, size,
                    JumpOffset(addr, ReadByte(addr + 1) \div 64) \div PtrSize)
    ELSE ScanTable(vtable, size, member, 0)

\* GetVirtualAddress from `member` on: skip a leading mov rax,[rcx]
DecodeMember(vtable, size, member) ==
    DecodeThunk(vtable, size, member,
                IF ReadByte(member) = 72 THEN member + 3 ELSE member)

\* GetVirtualAddress( vtable, size, method ), _MSC_VER and _WIN64
GetVirtualAddress(vtable, size, method) ==
    IF vtable = 0 \/ size = 0 \/ method = 0 THEN MemberDefault
    ELSE DecodeMember(vtable, size, GetAddress(method))

\* GetVirtualAddressInternal storing whatever the resolution yields
CacheWorthy_Always(address, size) == TRUE

\* the condition under which GetVirtualAddressInternal stores a resolution
CacheWorthy(address, size) == address.index < size

\* the end of GetVirtualAddressInternal: store the resolution if it found a slot
Remember(cache, size, member, address) ==
    [ member |-> address,
      cache  |-> IF CacheWorthy(address, size) THEN MapPut(cache, member, address)
                 ELSE cache ]

\* GetVirtualAddressInternal with `member` extracted: the cache, then the table
LookUp(cache, vtable, size, method, member) ==
    IF member \in DOMAIN cache
    THEN [ member |-> cache[member], cache |-> cache ]
    ELSE Remember(cache, size, member, GetVirtualAddress(vtable, size, method))

\* GetVirtualAddressInternal: the Member returned and the cache left behind
GetVirtualAddressInternal(cache, vtable, size, method) ==
    LookUp(cache, vtable, size, method, GetAddress(method))

GetTargetVirtualAddress(method) ==
    GetVirtualAddressInternal(target_cache, target_vtable, target_size, method)

GetSubstituteVirtualAddress(method) ==
    GetVirtualAddressInternal(substitute_cache, substitute_vtable, substitute_size, method)

(***************************************************************************)
(* The collaborators declared outside the header.                          *)
(***************************************************************************)
\* IsExecutableAddress: the address lies in mapped code
IsExecutableAddress(pAddress) ==
    pAddress # 0 /\ CodeAt((pAddress \div CodeAlign) * CodeAlign) # << >>

\* a default-constructed Detouring::Hook; of its state the header reads only
\* the trampoline
HookDefault == [ trampoline |-> 0 ]

\* Hook::Create: on success the hook owns a trampoline for `address`
HookCreate(hook, address, ok) ==
    IF ok THEN [ hook EXCEPT !.trampoline = TrampolineBase + address ] ELSE hook

\* Hook::Enable: activates the detour, which leaves the trampoline as it is
HookEnable(hook, ok) == hook

\* Hook::GetTrampoline
GetTrampoline(hook) == hook.trampoline

\* ProtectMemory( target_vtable + index, count * sizeof( void * ), protect )
ProtectMemory(index, count, protect) ==
    [ ev |-> "ProtectMemory", index |-> index, count |-> count,
      value |-> IF protect THEN 1 ELSE 0 ]

\* target_vtable[index] = value
WriteSlot(index, value) ==
    [ ev |-> "write", index |-> index, count |-> 1, value |-> value ]

\* the table and the writable slots after a handler's memory events, in order
RECURSIVE ApplyEvents(_, _, _)
ApplyEvents(mem, w, events) ==
    IF events = << >> THEN [ mem |-> mem, writable |-> w ]
    ELSE LET e     == Head(events)
             range == e.index .. (e.index + e.count - 1)
         IN  IF e.ev = "write"
             THEN ApplyEvents([ mem EXCEPT ![e.index + 1] = e.value ], w, Tail(events))
             ELSE ApplyEvents(mem, IF e.value = 0 THEN w \cup range ELSE w \ range,
                              Tail(events))


(***************************************************************************)
(* The handlers.  Each yields what the call returns, the memory events it  *)
(* performs in order, and the caches and hook map it leaves behind.        *)
(***************************************************************************)
Outcome(ret, dest, events, tcache, scache, hmap) ==
    [ ret |-> ret, dest |-> dest, events |-> events, collab |-> "not called",
      target_cache |-> tcache, substitute_cache |-> scache, hooks |-> hmap ]

\* the outcome of a call that reached the trampoline collaborator
Collaborated(outcome, result) == [ outcome EXCEPT !.collab = result ]

\* target_vtable[index]
TargetSlot(index) == TableMem(target_vtable)[index + 1]

\* target_vtable[index] != original_vtable[index]
SlotDiffers(index) == TargetSlot(index) # original_vtable[index + 1]

\* hooks.find( address ) != hooks.end( )
HasHook(address) == address \in DOMAIN hooks

\* PatchSlot with the slot index dropped: the write lands on the table's start
PatchSlot_AtTableStart(index, value) ==
    << ProtectMemory(0, 1, FALSE), WriteSlot(0, value), ProtectMemory(0, 1, TRUE) >>

\* PatchSlot without the two ProtectMemory calls around the write
PatchSlot_Unbracketed(index, value) == << WriteSlot(index, value) >>

\* the three statements of HookInternal that patch one slot
PatchSlot(index, value) ==
    << ProtectMemory(index, 1, FALSE), WriteSlot(index, value), ProtectMemory(index, 1, TRUE) >>

\* InstallHook on a Hook object that is not the map's element
InstallHook_Forgets(address, subst, result) ==
    [ ret |-> result = "ok", hooks |-> hooks ]

\* InstallHook that does not look at what Enable returns
InstallHook_IgnoresEnable(address, subst, result) ==
    [ ret |-> result # "create fails",
      hooks |-> MapPut(hooks, address,
                       HookCreate(HookDefault, address, result # "create fails")) ]

\* the tail both HookInternal overloads share: hooks[address], Create, Enable
InstallHook(address, subst, result) ==
    LET createOk == result # "create fails"
        enableOk == result = "ok"
        created  == HookCreate(HookDefault, address, createOk)
    IN  IF ~createOk
        THEN [ ret |-> FALSE, hooks |-> MapPut(hooks, address, created) ]
        ELSE [ ret |-> enableOk,
               hooks |-> MapPut(hooks, address, HookEnable(created, enableOk)) ]

\* what a handler yields after the trampoline collaborator has answered
Installed(inst, result, tcache) ==
    Collaborated(Outcome(inst.ret, 0, << >>, tcache, substitute_cache, inst.hooks), result)

\* the non-slot path both HookInternal overloads share, from `address` on
HookAddress(address, subst, result, tcache) ==
    IF address = 0 THEN Outcome(FALSE, 0, << >>, tcache, substitute_cache, hooks)
    ELSE IF HasHook(address)
    THEN Outcome(FALSE, 0, << >>, tcache, substitute_cache, hooks)
    ELSE IF subst = 0
    THEN Outcome(FALSE, 0, << >>, tcache, substitute_cache, hooks)
    ELSE Installed(InstallHook(address, subst, result), result, tcache)

\* HookInternal( RetType ( * )( Target *, Args... ), RetType ( Substitute::* )( Args... ) )
HookInternalFunction(original, substitute, result) ==
    HookAddress(original, GetAddress(substitute), result, target_cache)

\* the slot path of HookInternal without the check of the substitute's index
HookSlot_Unchecked(index, s, tcache) ==
    Outcome(TRUE, 0, PatchSlot(index, s.member.address), tcache, s.cache, hooks)

\* the slot path of HookInternal once the substitute is resolved
HookSlot(index, s, tcache) ==
    IF s.member.index >= substitute_size
    THEN Outcome(FALSE, 0, << >>, tcache, s.cache, hooks)
    ELSE Outcome(TRUE, 0, PatchSlot(index, s.member.address), tcache, s.cache, hooks)

\* HookInternal( RetType ( Target::* )( Args... ), ... ) once the original is resolved
HookResolved(original, substitute, result, t) ==
    IF t.member.index < target_size
    THEN IF SlotDiffers(t.member.index)
         THEN Outcome(FALSE, 0, << >>, t.cache, substitute_cache, hooks)
         ELSE HookSlot(t.member.index, GetSubstituteVirtualAddress(substitute), t.cache)
    ELSE HookAddress(GetAddress(original), GetAddress(substitute), result, t.cache)

\* HookInternal( RetType ( Target::* )( Args... ), RetType ( Substitute::* )( Args... ) )
HookInternalMember(original, substitute, result) ==
    HookResolved(original, substitute, result, GetTargetVirtualAddress(original))

\* UnHookInternal( RetType ( * )( Target *, Args... ) )
UnHookInternalFunction(original) ==
    IF HasHook(original)
    THEN Outcome(TRUE, 0, << >>, target_cache, substitute_cache, MapErase(hooks, original))
    ELSE Outcome(FALSE, 0, << >>, target_cache, substitute_cache, hooks)

\* UnHookInternal without the comparison against the snapshot
NothingToUndo_Never(index) == FALSE

\* target_vtable[target.index] == vfunction: the slot already holds the original
NothingToUndo(index) == ~SlotDiffers(index)

\* UnHookInternal once no hook was found in the map and the member is resolved
UnHookResolved(t) ==
    IF t.member.index >= target_size
    THEN Outcome(FALSE, 0, << >>, t.cache, substitute_cache, hooks)
    ELSE IF NothingToUndo(t.member.index)
    THEN Outcome(FALSE, 0, << >>, t.cache, substitute_cache, hooks)
    ELSE Outcome(TRUE, 0, PatchSlot(t.member.index, original_vtable[t.member.index + 1]),
                 t.cache, substitute_cache, hooks)

\* UnHookInternal with the address extracted
UnHookAddress(original, address) ==
    IF HasHook(address)
    THEN Outcome(TRUE, 0, << >>, target_cache, substitute_cache, MapErase(hooks, address))
    ELSE UnHookResolved(GetTargetVirtualAddress(original))

\* UnHookInternal( RetType ( Target::* )( Args... ) )
UnHookInternalMember(original) == UnHookAddress(original, GetAddress(original))

\* IsHookedInternal( RetType ( * )( Target *, Args... ) )
IsHookedInternalFunction(original) ==
    Outcome(HasHook(original), 0, << >>, target_cache, substitute_cache, hooks)

\* IsHookedInternal that looks at the hook map only
IsHookedResolved_MapOnly(t) ==
    Outcome(FALSE, 0, << >>, t.cache, substitute_cache, hooks)

\* IsHookedInternal once no hook was found in the map and the member is resolved
IsHookedResolved(t) ==
    IF t.member.index >= target_size
    THEN Outcome(FALSE, 0, << >>, t.cache, substitute_cache, hooks)
    ELSE Outcome(SlotDiffers(t.member.index), 0, << >>, t.cache, substitute_cache, hooks)

\* IsHookedInternal( RetType ( Target::* )( Args... ) )
IsHookedInternalMember(original) ==
    IF HasHook(GetAddress(original))
    THEN Outcome(TRUE, 0, << >>, target_cache, substitute_cache, hooks)
    ELSE IsHookedResolved(GetTargetVirtualAddress(original))

\* the Member a registered hook's trampoline makes: index 0 marks it usable
TrampolineMember(tramp) ==
    [ address |-> tramp, index |-> IF tramp # 0 THEN 0 ELSE MemberDefault.index ]

\* the first block of both CallInternal overloads
TrampolineTarget(address) ==
    IF HasHook(address)
    THEN TrampolineMember(GetTrampoline(hooks[address]))
    ELSE MemberDefault

\* the last block before the call: fall back on the raw address
RawTarget(target, address) ==
    IF target.index >= target_size
    THEN [ address |-> address, index |-> IF address # 0 THEN 0 ELSE target.index ]
    ELSE target

\* CallSlotAddress reading the live table instead of the snapshot
CallSlotAddress_Live(index) == TargetSlot(index)

\* the address CallInternal takes for a member found in the target table
CallSlotAddress(index) == original_vtable[index + 1]

\* the end of both CallInternal overloads: RetType( ) or the call itself
Dispatch(target, tcache) ==
    IF target.index >= target_size
    THEN Outcome(FALSE, 0, << >>, tcache, substitute_cache, hooks)
    ELSE Outcome(TRUE, target.address, << >>, tcache, substitute_cache, hooks)

\* CallInternal( Target *, RetType ( * )( Target *, Args... ), Args... )
CallInternalFunction(original) ==
    Dispatch(RawTarget(TrampolineTarget(original), original), target_cache)

\* the second block of CallInternal: a member found in the table is called
\* through the snapshot
SnapshotTarget(member) ==
    IF member.index < target_size
    THEN [ member EXCEPT !.address = CallSlotAddress(member.index) ]
    ELSE member

\* CallInternal past the second block, `t` being the table resolution
CallResolved(address, t) == Dispatch(RawTarget(SnapshotTarget(t.member), address), t.cache)

\* CallInternal past the first block, `target` being what the hook map gave
CallTarget(original, address, target) ==
    IF target.index >= target_size
    THEN CallResolved(address, GetTargetVirtualAddress(original))
    ELSE Dispatch(RawTarget(target, address), target_cache)

\* CallInternal with the address extracted
CallAddress(original, address) == CallTarget(original, address, TrampolineTarget(address))

\* CallInternal( Target *, RetType ( Target::* )( Args... ), Args... )
CallInternalMember(original) == CallAddress(original, GetAddress(original))

\* the loop of ~ClassProxy leaving after its first iteration
RestoreWrites_FirstOnly(index) ==
    IF SlotDiffers(index) THEN << WriteSlot(index, original_vtable[index + 1]) >> ELSE << >>

\* the loop of ~ClassProxy: every slot that differs from the snapshot is rewritten
RECURSIVE RestoreWrites(_)
RestoreWrites(index) ==
    IF index >= Len(original_vtable) THEN << >>
    ELSE (IF SlotDiffers(index)
          THEN << WriteSlot(index, original_vtable[index + 1]) >>
          ELSE << >>) \o RestoreWrites(index + 1)

\* ~ClassProxy( )
Destructor ==
    IF target_vtable # 0 /\ target_size # 0
    THEN Outcome(TRUE, 0,
                 << ProtectMemory(0, target_size, FALSE) >> \o RestoreWrites(0)
                    \o << ProtectMemory(0, target_size, TRUE) >>,
                 target_cache, substitute_cache, hooks)
    ELSE Outcome(TRUE, 0, << >>, target_cache, substitute_cache, hooks)

\* the snapshot loop of Initialize: copy words up to the first null
RECURSIVE CopyTable(_, _, _)
CopyTable(vtable, acc, k) ==
    IF Len(acc) < SizeMax /\ TableMem(vtable)[k + 1] # 0
    THEN CopyTable(vtable, Append(acc, TableMem(vtable)[k + 1]), k + 1)
    ELSE acc

\* the counting loop of Initialize over the substitute's table
RECURSIVE CountSlots(_, _)
CountSlots(vtable, n) ==
    IF TableMem(vtable)[n + 1] # 0 THEN CountSlots(vtable, n + 1) ELSE n

\* Initialize without its guard
AlreadyInitialized_Never == FALSE

\* the guard Initialize opens with
AlreadyInitialized == target_vtable # 0

(***************************************************************************)
(* The state machine.                                                      *)
(***************************************************************************)
NoCall == [ op |-> "none", kind |-> "none", ref |-> 0, ret |-> FALSE, dest |-> 0,
            events |-> << >>, collab |-> "not called" ]

Init ==
    /\ target_size = 0
    /\ target_vtable = 0
    /\ target_cache = EmptyMap
    /\ original_vtable = << >>
    /\ substitute_size = 0
    /\ substitute_vtable = 0
    /\ substitute_cache = EmptyMap
    /\ hooks = EmptyMap
    /\ target_mem = TargetTableImage
    /\ writable = {}
    /\ consumer \in DOMAIN ConsumerRefs
    /\ last = NoCall
    /\ pre = [ mem |-> TargetTableImage, hooks |-> EmptyMap ]

\* what every call leaves in `last` and `pre`
Record(op, kind, ref, ret, dest, events, collab) ==
    /\ last' = [ op |-> op, kind |-> kind, ref |-> ref, ret |-> ret, dest |-> dest,
                 events |-> events, collab |-> collab ]
    /\ pre' = [ mem |-> target_mem, hooks |-> hooks ]
    /\ UNCHANGED consumer

\* a handler other than Initialize takes effect
Commit(op, kind, ref, outcome) ==
    \E r \in { outcome } :
      \E m \in { ApplyEvents(target_mem, writable, r.events) } :
        /\ target_cache' = r.target_cache
        /\ substitute_cache' = r.substitute_cache
        /\ hooks' = r.hooks
        /\ target_mem' = m.mem
        /\ writable' = m.writable
        /\ Record(op, kind, ref, r.ret, r.dest, r.events, r.collab)
        /\ UNCHANGED << target_size, target_vtable, original_vtable,
                        substitute_size, substitute_vtable >>

\* Initialize keeping the pointer of a table it has rejected
RejectedTable_Kept(instance) == instance

\* what Initialize leaves in target_vtable when it rejects the instance's table
RejectedTable(instance) == 0

\* Initialize( Target *instance, Substitute *substitute )
Initialize(instance, substitute) ==
    IF AlreadyInitialized
    THEN /\ Record("Initialize", "member", instance, FALSE, 0, << >>, "not called")
         /\ UNCHANGED << statics, target_mem, writable >>
    ELSE IF instance = 0 \/ ~IsExecutableAddress(TableMem(instance)[1])
    THEN /\ target_vtable' = RejectedTable(instance)
         /\ Record("Initialize", "member", instance, FALSE, 0, << >>, "not called")
         /\ UNCHANGED << target_size, target_cache, original_vtable, substitute_size,
                         substitute_vtable, substitute_cache, hooks, target_mem, writable >>
    ELSE /\ target_vtable' = instance
         /\ original_vtable' = CopyTable(instance, original_vtable, 0)
         /\ target_size' = Len(original_vtable')
         /\ substitute_vtable' = substitute
         /\ substitute_size' = CountSlots(substitute, substitute_size)
         /\ Record("Initialize", "member", instance, TRUE, 0, << >>, "not called")
         /\ UNCHANGED << target_cache, substitute_cache, hooks, target_mem, writable >>

\* the collaborator's answer is drawn only by a call that asks for it
Consulted(outcome, result) == outcome.collab = result \/ result = "ok"

Hook(original, substitute, result) ==
    \E r \in { HookInternalMember(original, substitute, result) } :
        Consulted(r, result) /\ Commit("Hook", "member", original, r)

HookFunction(original, substitute, result) ==
    \E r \in { HookInternalFunction(original, substitute, result) } :
        Consulted(r, result) /\ Commit("Hook", "function", original, r)

UnHook(original) == Commit("UnHook", "member", original, UnHookInternalMember(original))

UnHookFunction(original) ==
    Commit("UnHook", "function", original, UnHookInternalFunction(original))

IsHooked(original) == Commit("IsHooked", "member", original, IsHookedInternalMember(original))

IsHookedFunction(original) ==
    Commit("IsHooked", "function", original, IsHookedInternalFunction(original))

Call(original) == Commit("Call", "member", original, CallInternalMember(original))

CallFunction(original) == Commit("Call", "function", original, CallInternalFunction(original))

Teardown == Commit("Teardown", "member", 0, Destructor)

Next ==
    \/ \E instance \in InstanceTables : Initialize(instance, SubstituteTablePtr)
    \/ \E original \in MemberRefs, substitute \in SubstituteRefs, result \in HookResults :
          Hook(original, substitute, result)
    \/ \E original \in FunctionRefs, substitute \in FunctionSubstituteRefs,
            result \in HookResults :
          HookFunction(original, substitute, result)
    \/ \E original \in MemberRefs : UnHook(original)
    \/ \E original \in FunctionRefs : UnHookFunction(original)
    \/ \E original \in MemberRefs : IsHooked(original)
    \/ \E original \in FunctionRefs : IsHookedFunction(original)
    \/ \E original \in MemberRefs : Call(original)
    \/ \E original \in FunctionRefs : CallFunction(original)
    \/ Teardown

Spec == Init /\ [][Next]_vars


(***************************************************************************)
(* Properties.  `last` names the call that led to the current state and    *)
(* `pre` the table and hook map that call started from.                    *)
(***************************************************************************)
\* the raw address the last call's reference designates
LastAddress == IF last.kind = "member" THEN GetAddress(last.ref) ELSE last.ref

\* what IsHooked would return now for the last call's reference
IsHookedNow ==
    IF last.kind = "member"
    THEN IsHookedInternalMember(last.ref).ret
    ELSE IsHookedInternalFunction(last.ref).ret

\* the slot writes of the last call
LastWrites == SelectSeq(last.events, LAMBDA e : e.ev = "write")

\* a hook is registered for the address and its trampoline is not null
UsableTrampoline(address) == HasHook(address) /\ GetTrampoline(hooks[address]) # 0

\* the index the target-table resolution of a reference yields
SlotOf(ref) == GetTargetVirtualAddress(ref).member.index

\* C1: Call on a reference that resolves to target slot i and has no hook with a
\* usable trampoline calls the snapshot value of slot i; while the slot is
\* hooked that is not the value in the live slot.
C1_CallUsesSnapshot ==
    (last.op = "Call" /\ last.kind = "member") =>
        LET i == SlotOf(last.ref)
        IN  (i < target_size /\ ~UsableTrampoline(LastAddress)) =>
                /\ last.ret
                /\ last.dest = original_vtable[i + 1]
                /\ (SlotDiffers(i) => last.dest # TargetSlot(i))

C1_Witness ==
    /\ last.op = "Call"
    /\ last.kind = "member"
    /\ SlotOf(last.ref) < target_size
    /\ ~HasHook(LastAddress)
    /\ SlotDiffers(SlotOf(last.ref))
    /\ last.dest = original_vtable[SlotOf(last.ref) + 1]

C3_RoundTrip ==
    [][ ( /\ last.op = "Hook"
          /\ last.ret
          /\ last'.op = "UnHook"
          /\ last'.kind = last.kind
          /\ last'.ref = last.ref )
        => ( /\ last'.ret
             /\ ~IsHookedNow'
             /\ target_mem' = pre.mem
             /\ hooks' = pre.hooks ) ]_vars

\* the reference of the call now starting is already hooked: its slot differs
\* from the snapshot or its address has a hook registered
AlreadyHooked(kind, ref) ==
    IF kind = "member"
    THEN \/ HasHook(GetAddress(ref))
         \/ (SlotOf(ref) < target_size /\ SlotDiffers(SlotOf(ref)))
    ELSE HasHook(ref)

\* C4 as stated: Hook on a reference whose slot is already hooked or whose
\* address already has a hook registered returns false, writes nothing, toggles
\* no protection and leaves the hook map unchanged.
C4_RehookFails ==
    [][ (last'.op = "Hook" /\ AlreadyHooked(last'.kind, last'.ref))
        => ( /\ ~last'.ret
             /\ last'.events = << >>
             /\ target_mem' = target_mem
             /\ hooks' = hooks ) ]_vars

\* C5 as stated: a Hook whose Create or Enable fails returns false and leaves
\* the hook map as it was, so IsHooked stays false for the address.
C5_FailedHookRecordsNothing ==
    (last.op = "Hook" /\ last.collab \in { "create fails", "enable fails" })
    => ( /\ ~last.ret
         /\ hooks = pre.hooks
         /\ ~HasHook(LastAddress) )

\* C6: UnHook on a member that is not hooked (no hook registered for its
\* address, and it resolves to no slot or its slot equals the snapshot) returns
\* false and changes neither the table, the snapshot, the hook map nor the
\* protection.
C6_UnhookNotHooked ==
    [][ (last'.op = "UnHook" /\ ~AlreadyHooked(last'.kind, last'.ref))
        => ( /\ ~last'.ret
             /\ last'.events = << >>
             /\ target_mem' = target_mem
             /\ original_vtable' = original_vtable
             /\ hooks' = hooks
             /\ writable' = writable ) ]_vars

C6_Witness ==
    /\ last.op = "UnHook"
    /\ last.kind = "member"
    /\ ~last.ret
    /\ SlotOf(last.ref) < target_size
    /\ ~SlotDiffers(SlotOf(last.ref))
    /\ \E j \in 0..(target_size - 1) : SlotDiffers(j)

\* the reference matches no slot and no scanned address of either table
Unresolvable(ref) ==
    /\ SlotOf(ref) >= target_size
    /\ GetVirtualAddress(substitute_vtable, substitute_size, ref).index >= substitute_size

\* C7 as stated: Hook with an original that matches no slot and no scanned
\* address in either table returns false and toggles no page.
C7_UnresolvableHookFails ==
    [][ (last'.op = "Hook" /\ last'.kind = "member" /\ Unresolvable(last'.ref))
        => (~last'.ret /\ last'.events = << >>) ]_vars

\* C7 amended: such a Hook goes to the trampoline collaborator: it returns true
\* exactly when no hook was registered for the address and Create and Enable
\* both succeed, and in every case it toggles no page and writes no slot.
C7_UnresolvableHookDelegates ==
    [][ (last'.op = "Hook" /\ last'.kind = "member" /\ Unresolvable(last'.ref))
        => ( /\ last'.ret = (~HasHook(GetAddress(last'.ref)) /\ last'.collab = "ok")
             /\ last'.events = << >>
             /\ target_mem' = target_mem
             /\ writable' = writable ) ]_vars

C7_Witness ==
    /\ last.op = "Hook"
    /\ last.kind = "member"
    /\ target_size > 0
    /\ Unresolvable(last.ref)
    /\ last.ret
    /\ last.events = << >>
    /\ target_mem = pre.mem

\* C8: an Initialize returns true only when none has before; once one has,
\* every Initialize returns false and the table pointers, the sizes and the
\* snapshot never change; an Initialize before that succeeds whenever the
\* instance's table pointer is not null and its first entry is executable.
C8_InitializeOnce ==
    [][ /\ (target_vtable # 0 =>
                /\ UNCHANGED << target_vtable, substitute_vtable, target_size,
                                substitute_size, original_vtable >>
                /\ (last'.op = "Initialize" => ~last'.ret))
        /\ ((last'.op = "Initialize" /\ target_vtable = 0) =>
                /\ last'.ret = (last'.ref # 0
                                /\ IsExecutableAddress(TableMem(last'.ref)[1]))
                /\ last'.ret = (target_vtable' # 0)) ]_vars

C8_Witness ==
    /\ last.op = "Initialize"
    /\ last.ref = TargetTablePtr
    /\ ~last.ret
    /\ target_vtable = TargetTablePtr
    /\ \E j \in 0..(target_size - 1) : SlotDiffers(j)

\* C9: Hook and UnHook of the member at slot i change only live slot i: for
\* every other slot j the live value of slot j is the same before and after the
\* call, and so is what IsHooked returns for a reference that resolves to slot
\* j.  In every state IsHooked returns whether a hook is registered for the
\* reference's address or its slot differs from the snapshot; after the call
\* it returns what these were in the table and hook map the call started from.
C9_OtherSlotsUntouched ==
    /\ \A r \in MemberRefs :
          \E j \in { SlotOf(r) } :
             j < target_size =>
                IsHookedInternalMember(r).ret
                   = (HasHook(GetAddress(r)) \/ SlotDiffers(j))
    /\ (last.op \in { "Hook", "UnHook" } /\ last.kind = "member")
       => \E i \in { SlotOf(last.ref) } :
             /\ \A j \in 0..(target_size - 1) :
                   j # i => target_mem[j + 1] = pre.mem[j + 1]
             /\ \A r \in MemberRefs :
                   \E j \in { SlotOf(r) } :
                      (j < target_size /\ j # i) =>
                         IsHookedInternalMember(r).ret
                            = ( \/ GetAddress(r) \in DOMAIN pre.hooks
                                \/ pre.mem[j + 1] # original_vtable[j + 1] )

C9_Witness ==
    /\ last.op = "Hook"
    /\ last.kind = "member"
    /\ last.ret
    /\ LastWrites # << >>
    /\ \E j \in 0..(target_size - 1) :
          j # LastWrites[1].index /\ SlotDiffers(j) /\ target_mem[j + 1] = pre.mem[j + 1]

\* C10 as stated: Call returns the default value only when no step yields a
\* callable address: with a usable trampoline registered it calls the
\* trampoline, and otherwise with a non-null raw address it calls some address.
C10_CallFallback ==
    last.op = "Call" =>
        /\ (UsableTrampoline(LastAddress) =>
                last.ret /\ last.dest = GetTrampoline(hooks[LastAddress]))
        /\ ((~UsableTrampoline(LastAddress) /\ LastAddress # 0) => last.ret)

\* the events are well bracketed from the writable set `w` on: every write lands
\* on a slot that is writable at that moment, and nothing is writable at the end
RECURSIVE Bracketed(_, _)
Bracketed(events, w) ==
    IF events = << >> THEN w = {}
    ELSE LET e     == Head(events)
             range == e.index .. (e.index + e.count - 1)
         IN  IF e.ev = "write"
             THEN e.index \in w /\ Bracketed(Tail(events), w)
             ELSE Bracketed(Tail(events), IF e.value = 0 THEN w \cup range ELSE w \ range)

\* C11: every slot write of a call happens after a ProtectMemory call made the
\* slot writable and before one restored its protection, and when a call has
\* returned, with success or failure, no slot is left writable.
C11_WritesBracketed ==
    /\ Bracketed(last.events, {})
    /\ writable = {}

C11_Witness ==
    /\ last.op = "Teardown"
    /\ Len(LastWrites) >= 2
    /\ Bracketed(last.events, {})
    /\ writable = {}

\* C12: once Initialize has captured the snapshot no call changes it, and its
\* length stays target_size; a successful slot-path Hook of slot i leaves the
\* substitute's resolved address X in live slot i and snapshot[i] as it was.
C12_SnapshotImmutable ==
    [][ /\ Len(original_vtable') = target_size'
        /\ target_vtable # 0 => original_vtable' = original_vtable
        /\ (last'.op = "Hook" /\ last'.kind = "member" /\ last'.ret
                /\ SlotOf(last'.ref) < target_size)
           => \E i \in { SlotOf(last'.ref) } :
                 /\ \E substitute \in SubstituteRefs :
                       target_mem'[i + 1]
                          = GetSubstituteVirtualAddress(substitute).member.address
                 /\ LastWrites' = << WriteSlot(i, target_mem'[i + 1]) >>
                 /\ original_vtable'[i + 1] = original_vtable[i + 1]
      ]_vars

C12_Witness ==
    /\ last.op = "Hook"
    /\ last.ret
    /\ Len(LastWrites) = 1
    /\ target_mem[LastWrites[1].index + 1] = LastWrites[1].value
    /\ original_vtable[LastWrites[1].index + 1] = TargetTableImage[LastWrites[1].index + 1]
    /\ original_vtable[LastWrites[1].index + 1] # LastWrites[1].value
    /\ Len(original_vtable) = NumTargetSlots

\* C13 as stated: when IsHooked has resolved a reference against the target
\* table, and a Hook or UnHook call on another reference follows, resolving the
\* first reference again yields the Member it yielded before (same index, found
\* or not found); a reference that was found is answered from the cache.
C13_ResolutionStable ==
    [][ ( /\ last.op = "IsHooked"
          /\ last.kind = "member"
          /\ ~HasHook(LastAddress)
          /\ last'.op \in { "Hook", "UnHook" }
          /\ last'.kind = "member"
          /\ last'.ref # last.ref )
        => \E r \in { last.ref } :
              /\ GetTargetVirtualAddress(r).member' = GetTargetVirtualAddress(r).member
              /\ SlotOf(r) < target_size => GetAddress(r) \in DOMAIN target_cache
      ]_vars

\* C14: every entry of a resolution cache is a successful resolution (its
\* index is below the size of that table), and no call removes or changes an
\* entry that is present.
C14_CacheMonotone ==
    [][ /\ \A a \in DOMAIN target_cache :
              a \in DOMAIN target_cache' /\ target_cache'[a] = target_cache[a]
        /\ \A a \in DOMAIN substitute_cache :
              a \in DOMAIN substitute_cache' /\ substitute_cache'[a] = substitute_cache[a]
        /\ \A a \in DOMAIN target_cache' : target_cache'[a].index < target_size'
        /\ \A a \in DOMAIN substitute_cache' :
              substitute_cache'[a].index < substitute_size'
      ]_vars

C14_Witness ==
    /\ last.op = "IsHooked"
    /\ last.kind = "member"
    /\ target_size > 0
    /\ SlotOf(last.ref) >= target_size
    /\ LastAddress \notin DOMAIN target_cache
    /\ target_cache # EmptyMap
    /\ substitute_cache # EmptyMap

\* C15: IsHooked returns true exactly when the hook map has an entry for the
\* reference's address, or the reference resolves to a target slot whose live
\* value differs from its snapshot value; it returns false otherwise, also when
\* the reference resolves to nothing or no Initialize has succeeded; for a
\* free function it returns whether the hook map has an entry for it.
C15_IsHookedExact ==
    last.op = "IsHooked" =>
        /\ last.kind = "member" =>
               last.ret = ( \/ HasHook(LastAddress)
                            \/ ( /\ SlotOf(last.ref) < target_size
                                 /\ SlotDiffers(SlotOf(last.ref)) ) )
        /\ last.kind = "function" => last.ret = HasHook(last.ref)
        /\ target_vtable = 0 => last.ret = HasHook(LastAddress)
        /\ target_mem = pre.mem
        /\ hooks = pre.hooks

C15_Witness ==
    /\ last.op = "IsHooked"
    /\ last.kind = "member"
    /\ last.ret
    /\ ~HasHook(LastAddress)
    /\ SlotOf(last.ref) < target_size
    /\ SlotDiffers(SlotOf(last.ref))

\* C16: after Teardown of an initialized registry every live target slot equals
\* its snapshot value, and the slots written are those that differed; Teardown
\* of a registry that was never initialized writes nothing and toggles no
\* protection.
C16_TeardownRestores ==
    last.op = "Teardown" =>
        /\ target_vtable # 0 =>
               /\ \A j \in 0..(target_size - 1) : ~SlotDiffers(j)
               /\ \A j \in 0..(target_size - 1) :
                     (pre.mem[j + 1] # original_vtable[j + 1])
                        = (\E k \in 1..Len(LastWrites) : LastWrites[k].index = j)
        /\ target_vtable = 0 => last.events = << >> /\ target_mem = pre.mem

C16_Witness ==
    /\ last.op = "Teardown"
    /\ target_vtable # 0
    /\ \A j \in 0..(target_size - 1) :
          pre.mem[j + 1] # original_vtable[j + 1] /\ target_mem[j + 1] = original_vtable[j + 1]

\* C17 as stated: after Teardown the hook map is empty and IsHooked returns
\* false for every member reference and every free function.
C17_TeardownReleases ==
    last.op = "Teardown" =>
        /\ hooks = EmptyMap
        /\ \A r \in MemberRefs : ~IsHookedInternalMember(r).ret
        /\ \A f \in FunctionRefs : ~IsHookedInternalFunction(f).ret

\* the values of the substitute table's slots
SubstituteSlotValues ==
    { TableMem(substitute_vtable)[k] : k \in 1..substitute_size }

\* C18: once Initialize has succeeded every live target slot below target_size
\* holds its snapshot value or the value of a slot of the substitute table;
\* every write of a call stores such a value at an index below target_size, and
\* the words of the table from target_size on are never written.
C18_SlotValues ==
    target_vtable # 0 =>
        /\ \A j \in 0..(target_size - 1) :
              TargetSlot(j) \in { original_vtable[j + 1] } \cup SubstituteSlotValues
        /\ \A k \in 1..Len(LastWrites) :
              /\ LastWrites[k].index < target_size
              /\ LastWrites[k].value
                    \in { original_vtable[LastWrites[k].index + 1] } \cup SubstituteSlotValues
        /\ \A k \in (target_size + 1)..Len(target_mem) : target_mem[k] = TargetTableImage[k]

C18_Witness ==
    /\ target_vtable # 0
    /\ last.op = "UnHook"
    /\ last.ret
    /\ LastWrites # << >>
    /\ \E j \in 0..(target_size - 1) :
          SlotDiffers(j) /\ TargetSlot(j) \in SubstituteSlotValues
    /\ \E j \in 0..(target_size - 1) : ~SlotDiffers(j)

\* C19: an Initialize that fails because the table pointer is null or its first
\* entry is not executable leaves the statics and the table as they were, so a
\* later Initialize of a valid target succeeds; while no Initialize has
\* succeeded the snapshot and both caches are empty and the sizes zero, every
\* member reference resolves to the not-found Member, and Hook, UnHook and
\* IsHooked on a member reference write no slot and toggle no protection.
C19_FailedInitialize ==
    [][ /\ (last'.op = "Initialize" /\ ~last'.ret)
           => UNCHANGED << statics, target_mem, writable >>
        /\ (last'.op = "Initialize" /\ target_vtable = 0 /\ last'.ref = TargetTablePtr)
           => (last'.ret /\ target_vtable' = TargetTablePtr)
        /\ target_vtable' = 0
           => /\ original_vtable' = << >>
              /\ target_size' = 0 /\ substitute_size' = 0
              /\ target_cache' = EmptyMap /\ substitute_cache' = EmptyMap
        /\ ( /\ target_vtable = 0
             /\ last'.op \in { "Hook", "UnHook", "IsHooked" }
             /\ last'.kind = "member" )
           => /\ GetTargetVirtualAddress(last'.ref).member = MemberDefault
              /\ last'.events = << >>
              /\ target_mem' = target_mem
              /\ writable' = writable
      ]_vars

C19_Witness ==
    /\ last.op = "Initialize"
    /\ last.ref = DataTablePtr
    /\ ~last.ret
    /\ target_vtable = 0
    /\ original_vtable = << >>
    /\ hooks # EmptyMap

=============================================================================
